---------------------------- MODULE Spec2Model ----------------------------
(***************************************************************************)
(* A model of kolibri/core/content/models.py: the nested-set tree engine   *)
(* (ContentNodeManager.build_tree_nodes, get_descendant_content_ids,       *)
(* dedupe_by_content_id), the bitmask label query (has_all_labels), the    *)
(* local file store's unused-file collection, and the content request      *)
(* ledger.  Each component has its own specification over the shared       *)
(* variables; the components that a specification does not exercise keep   *)
(* their initial values.                                                   *)
(***************************************************************************)
EXTENDS Integers, Sequences, FiniteSets

VARIABLES
    nodes,      \* TreeStore: the stored ContentNode rows
    nextId,     \* the next identifier the caller puts in data (ids are unique)
    last,       \* the last completed build_tree_nodes call and the store before it
    roots,      \* the identifiers of the subtree roots built with no target
    pc,         \* concurrent callers: position of each caller in its build_tree call
    job,        \* concurrent callers: the locals of the call in progress
    expect,     \* concurrent callers: the rows the target's tree has after the call run alone
    alone,      \* concurrent callers: no other call in the same tree overlapped this one
    lfAvail,    \* FileStore: LocalFile.available of each LocalFile row
    onDisk,     \* whether the bytes of each LocalFile are in content storage
    fileRows,   \* the File rows: pairs of a ContentNode and a LocalFile
    nodeAvail,  \* ContentNode.available of each catalog node
    gcPc,       \* delete_unused_files: "idle", "scanning" or "done"
    snapshot,   \* the files of the generator's queryset when it was evaluated
    todo,       \* the files of the queryset the loop has not reached yet
    yielded,    \* the pairs yielded so far by the generator
    late,       \* files that became unused while the generator was scanning
    passes,     \* generators started so far
    changes,    \* catalog changes made so far by the rest of the system
    lastDelete, \* the last call of delete_stored_file: its file and what it returned
    requests,   \* RequestLedger: the stored ContentRequest rows
    nextReq,    \* the next primary key a new request instance gets
    lastSave,   \* the last call of ContentRequest.save and what it did
    lblLabels,  \* LabelIndex: the labels argument of has_all_labels
    lblNode,    \* the bitmask field values of the node the filter is applied to
    lblDone,    \* whether the query has been evaluated
    lblResult,  \* whether the node is in the filtered queryset
    ddTable,    \* dedupe: the content_id of each stored ContentNode, by id
    ddQs,       \* the ids of the rows of the queryset dedupe is called on
    ddCall,     \* the connection vendor and use_distinct of the call
    ddResult    \* the ids of the rows of the returned queryset

treeVars == <<nodes, nextId, last, roots, pc, job, expect, alone>>

fileVars == <<lfAvail, onDisk, fileRows, nodeAvail, gcPc, snapshot, todo,
              yielded, late, passes, changes, lastDelete>>

ledgerVars == <<requests, nextReq, lastSave>>

labelVars == <<lblLabels, lblNode, lblDone, lblResult>>

dedupeVars == <<ddTable, ddQs, ddCall, ddResult>>

vars == <<nodes, nextId, last, roots, pc, job, expect, alone,
          lfAvail, onDisk, fileRows, nodeAvail, gcPc, snapshot, todo,
          yielded, late, passes, changes, lastDelete,
          requests, nextReq, lastSave,
          lblLabels, lblNode, lblDone, lblResult,
          ddTable, ddQs, ddCall, ddResult>>

(***************************************************************************)
(* Bounds.                                                                 *)
(***************************************************************************)
MaxNodes == 5

MaxConcNodes == 4

MaxPasses == 2

MaxChanges == 2

MaxRequests == 2

MaxLabels == 3

MaxRows == 3

Range(s) == {s[i] : i \in DOMAIN s}

(***************************************************************************)
(* TreeStore.                                                              *)
(*                                                                         *)
(* A stored row carries the caller's fields (id, parent, kind, content_id, *)
(* all taken from data by self.model) and the coordinates the manager      *)
(* assigns (tree_id, level, lft, rght).  parent = 0 is "no parent".        *)
(***************************************************************************)
TOPIC == "topic"

VIDEO == "video"

\* target=None
NoNode == [id |-> 0, parent |-> 0, tree_id |-> 0, level |-> 0, lft |-> 0,
           rght |-> 0, kind |-> TOPIC, content_id |-> "ca"]

\* The nested descriptions passed as data: a description is the sequence of
\* its children's descriptions (data["children"]).
Leaf == <<>>

Shapes == {Leaf, <<Leaf>>, <<Leaf, Leaf>>, <<<<Leaf>>>>}

ConcShapes == {Leaf, <<Leaf>>}

ValidPositions == {"first-child", "last-child", "left", "right"}

\* "middle" stands for every position string that is none of the four.
Positions == ValidPositions \cup {"middle"}

\* The content_id the caller's data gives the node with identifier id.
DataContentId(id) == IF id % 2 = 1 THEN "ca" ELSE "cb"

\* The kind the caller's data gives a node: a node with children is a topic.
DataKind(data) == IF Len(data) > 0 THEN TOPIC ELSE VIDEO

\* The parent the caller's data gives the root of the described subtree: the
\* target for a child position, the target's parent for a sibling position.
DataParent(target, position) ==
    IF target = NoNode THEN 0
    ELSE IF position \in {"left", "right"} THEN target.parent
    ELSE target.id

RECURSIVE treeify(_, _, _, _, _, _)
RECURSIVE treeify_children(_, _, _, _, _, _)

\* for child in children: cursor = treeify(child, cursor=cursor + 1, level=level + 1)
\* (level is already the children's level here).
treeify_children(children, cursor, level, tree_id, id, parent) ==
    IF children = <<>> THEN [stack |-> <<>>, cursor |-> cursor]
    ELSE LET r == treeify(Head(children), cursor + 1, level, tree_id, id, parent)
             rest == treeify_children(Tail(children), r.cursor, level, tree_id,
                                      id + Len(r.stack), parent)
         IN [stack |-> r.stack \o rest.stack, cursor |-> rest.cursor]

\* treeify: appends the node to the stack before its children (preorder),
\* lft = cursor on entry, rght = cursor after the children, plus one.
treeify(data, cursor, level, tree_id, id, parent) ==
    LET kids == treeify_children(data, cursor, level + 1, tree_id, id + 1, id)
        right == kids.cursor + 1
        node == [id |-> id, parent |-> parent, tree_id |-> tree_id,
                 level |-> level, lft |-> cursor, rght |-> right,
                 kind |-> DataKind(data), content_id |-> DataContentId(id)]
    IN [stack |-> <<node>> \o kids.stack, cursor |-> right]

RECURSIVE Size(_)
Size(data) == IF data = <<>> THEN 1 ELSE Size(Head(data)) + Size(Tail(data))

\* TreeManager._get_next_tree_id, inherited from django-mptt: one more than
\* the largest stored tree_id (1 on an empty table).  It only reads.
get_next_tree_id(store) ==
    LET ids == {n.tree_id : n \in store}
    IN IF ids = {} THEN 1
       ELSE (CHOOSE m \in ids : \A k \in ids : k <= m) + 1

\* A plausible slip: the UPDATE of _create_space without its tree_id filter.
create_space_all_trees(store, size, target, tree_id) ==
    {[n EXCEPT !.lft = IF n.lft > target THEN n.lft + size ELSE n.lft,
               !.rght = IF n.rght > target THEN n.rght + size ELSE n.rght]
       : n \in store}

\* TreeManager._create_space(size, target, tree_id), inherited from
\* django-mptt: in tree tree_id every lft and every rght greater than target
\* moves right by size, in one UPDATE.
create_space(store, size, target, tree_id) ==
    {IF n.tree_id = tree_id
        THEN [n EXCEPT !.lft = IF n.lft > target THEN n.lft + size ELSE n.lft,
                       !.rght = IF n.rght > target THEN n.rght + size ELSE n.rght]
        ELSE n : n \in store}

\* A plausible slip in the cursor of last-child: one past the target's right
\* bound instead of the right bound itself.
StartCursorPastRight(target, position) ==
    IF target # NoNode
    THEN IF position \in {"left", "right"}
         THEN IF position = "left" THEN target.lft ELSE target.rght + 1
         ELSE IF position = "first-child" THEN target.lft + 1 ELSE target.rght + 1
    ELSE 1

\* build_tree_nodes, the cursor chosen from target and position.
StartCursor(target, position) ==
    IF target # NoNode
    THEN IF position \in {"left", "right"}
         THEN IF position = "left" THEN target.lft ELSE target.rght + 1
         ELSE IF position = "first-child" THEN target.lft + 1 ELSE target.rght
    ELSE 1

\* A plausible slip: the level of a child given to a sibling too.
StartLevelAlwaysBelow(target, position) ==
    IF target # NoNode THEN target.level + 1 ELSE 0

\* build_tree_nodes, the level chosen from target and position.
StartLevel(target, position) ==
    IF target # NoNode
    THEN IF position \in {"left", "right"} THEN target.level ELSE target.level + 1
    ELSE 0

\* build_tree_nodes, the tree_id: the target's, or the next one of the store.
StartTreeId(store, target) ==
    IF target # NoNode THEN target.tree_id ELSE get_next_tree_id(store)

\* build_tree_nodes up to the call of treeify: the coordinate assignment.
\* Reads the store only for the next tree id.
AssignCoordinates(store, data, target, position, id) ==
    LET cursor == StartCursor(target, position)
        tree_id == StartTreeId(store, target)
        r == treeify(data, cursor, StartLevel(target, position), tree_id, id,
                     DataParent(target, position))
    IN [stack |-> r.stack, cursor |-> cursor, tree_id |-> tree_id,
        hasTarget |-> (target # NoNode)]

\* A plausible slip: room for one bound per new node instead of two.
MakeSpaceOneSlot(store, a) ==
    IF a.hasTarget
    THEN create_space(store, Len(a.stack), a.cursor - 1, a.tree_id)
    ELSE store

\* build_tree_nodes, "if target: self._create_space(2 * len(stack), cursor - 1, tree_id)":
\* the store after the space-making write of an assigned call.
MakeSpace(store, a) ==
    IF a.hasTarget
    THEN create_space(store, 2 * Len(a.stack), a.cursor - 1, a.tree_id)
    ELSE store

\* The whole of build_tree_nodes: the returned stack and the store it leaves.
build_tree_nodes(store, data, target, position, id) ==
    LET a == AssignCoordinates(store, data, target, position, id)
    IN [stack |-> a.stack, store |-> MakeSpace(store, a)]

\* The store after build_tree(data, target, position) and the save of the
\* returned rows, the new rows numbered from id.
AfterInsert(store, data, target, position, id) ==
    LET r == build_tree_nodes(store, data, target, position, id)
    IN r.store \cup Range(r.stack)

\* The rows of tree tree_id.
TreeRows(store, tree_id) == {n \in store : n.tree_id = tree_id}

(***************************************************************************)
(* ContentNode.get_descendant_content_ids.  A values_list is modelled by   *)
(* the number of times each content_id occurs in it.                       *)
(***************************************************************************)
CountOf(rows) ==
    [c \in {n.content_id : n \in rows} |-> Cardinality({n \in rows : n.content_id = c})]

\* filter(lft__gte=self.lft, lft__lte=self.rght).exclude(kind=content_kinds.TOPIC)
DescendantRows(store, self) ==
    {n \in store : n.lft >= self.lft /\ n.lft <= self.rght /\ n.kind # TOPIC}

get_descendant_content_ids(store, self) == CountOf(DescendantRows(store, self))

(***************************************************************************)
(* Nested-set structure, read from the parent references of the rows.      *)
(***************************************************************************)
ParentOf(store, n) == CHOOSE p \in store : p.id = n.parent

RECURSIVE IsAncestor(_, _, _)
IsAncestor(store, a, n) ==
    /\ n.parent # 0
    /\ \E p \in store : p.id = n.parent
    /\ \/ n.parent = a.id
       \/ IsAncestor(store, a, ParentOf(store, n))

Descendants(store, a) == {n \in store : IsAncestor(store, a, n)}

ParentEncloses(store) ==
    \A n \in store :
        /\ n.lft < n.rght
        /\ n.parent # 0 =>
              \E p \in store : /\ p.id = n.parent
                               /\ p.tree_id = n.tree_id
                               /\ p.lft < n.lft
                               /\ n.rght < p.rght

SiblingsDisjoint(store) ==
    \A a, b \in store :
        (a # b /\ a.tree_id = b.tree_id /\ a.parent = b.parent)
            => (a.rght < b.lft \/ b.rght < a.lft)

SubtreeCounts(store) ==
    \A n \in store : 2 * Cardinality(Descendants(store, n)) = n.rght - n.lft - 1

\* C1: after any sequence of build_tree calls, each followed by the save of
\* the returned nodes, every stored node lies strictly inside its parent's
\* bounds, siblings of one tree do not overlap, and every node has
\* (rght - lft - 1) / 2 descendants.
C1_NestedSetValid ==
    /\ ParentEncloses(nodes)
    /\ SiblingsDisjoint(nodes)
    /\ SubtreeCounts(nodes)

\* C1 witness: an insertion to the left of a target has moved stored rows of
\* a tree three levels deep.
C1_Witness ==
    /\ last.called
    /\ last.target # NoNode
    /\ last.position = "left"
    /\ \E n \in last.before : n \notin nodes
    /\ \E n \in nodes : n.level = 2
    /\ Cardinality(nodes) = MaxNodes


NoCall == [called |-> FALSE, target |-> NoNode, position |-> "last-child",
           returned |-> <<>>, before |-> {}]

Callers == {1, 2}

NoJob == [stack |-> <<>>, cursor |-> 0, tree_id |-> 0, hasTarget |-> FALSE]

(***************************************************************************)
(* FileStore.                                                              *)
(*                                                                         *)
(* The catalog the file queries read: LocalFile rows with their available  *)
(* flag, File rows joining a ContentNode to a LocalFile, and the           *)
(* available flag of the ContentNodes.                                     *)
(***************************************************************************)
LocalFiles == {"f1", "f2"}

CatalogNodes == {"n1", "n2"}

FileRowSpace == [contentnode : CatalogNodes, local_file : LocalFiles]

\* The File rows of a LocalFile (the reverse relation "files").
FilesOf(rows, f) == {r \in rows : r.local_file = f}

\* A plausible slip: the exclude of files with an available node is missing.
get_unused_files_no_exclude(self, avail, rows, navail) ==
    LET ids == {f \in LocalFiles :
                   \/ \E r \in FilesOf(rows, f) : navail[r.contentnode] = FALSE
                   \/ FilesOf(rows, f) = {}}
    IN {f \in self : f \in ids /\ avail[f] = TRUE}

\* LocalFileQueryset.get_unused_files on the queryset self:
\* ids = LocalFile.objects.filter(Q(files__contentnode__available=False)
\*                                | Q(files__isnull=True))
\* self.filter(id__in=ids).exclude(files__contentnode__available=True)
\*     .filter(available=True)
get_unused_files(self, avail, rows, navail) ==
    LET ids == {f \in LocalFiles :
                   \/ \E r \in FilesOf(rows, f) : navail[r.contentnode] = FALSE
                   \/ FilesOf(rows, f) = {}}
    IN {f \in self : /\ f \in ids
                     /\ ~(\E r \in FilesOf(rows, f) : navail[r.contentnode] = TRUE)
                     /\ avail[f] = TRUE}

\* The unused files of LocalFile.objects in the current state.
UnusedNow == get_unused_files(LocalFiles, lfAvail, fileRows, nodeAvail)

NoDelete == [called |-> FALSE, file |-> "f1", deleted |-> FALSE]

FilesIdle ==
    /\ lfAvail = [f \in LocalFiles |-> FALSE]
    /\ onDisk = [f \in LocalFiles |-> FALSE]
    /\ fileRows = {}
    /\ nodeAvail = [n \in CatalogNodes |-> FALSE]
    /\ gcPc = "idle"
    /\ snapshot = {}
    /\ todo = {}
    /\ yielded = <<>>
    /\ late = {}
    /\ passes = 0
    /\ changes = 0
    /\ lastDelete = NoDelete


(***************************************************************************)
(* RequestLedger.                                                          *)
(*                                                                         *)
(* One table of ContentRequest rows; ContentDownloadRequest and            *)
(* ContentRemovalRequest are proxy classes over it whose manager fixes     *)
(* request_type.  The base class has the default manager, which has no     *)
(* request_type attribute.                                                 *)
(***************************************************************************)
Download == "DOWNLOAD"

Removal == "REMOVAL"

None == "None"

ContentRequestType == {Download, Removal}

ContentRequestStatus == {"PENDING", "IN_PROGRESS", "FAILED", "COMPLETED"}

RequestClasses == {"ContentRequest", "ContentDownloadRequest", "ContentRemovalRequest"}

\* getattr(cls.objects, "request_type", None)
request_type(cls) ==
    IF cls = "ContentDownloadRequest" THEN Download
    ELSE IF cls = "ContentRemovalRequest" THEN Removal
    ELSE None

\* The origins (source_model, source_id) and the content nodes requested.
Sources == {<<"facilityuser", "u1">>, <<"lesson", "l1">>}

RequestedNodes == {"c1"}

\* A plausible slip: status listed among the unique_together columns.
UniqueKeyWithStatus(r) ==
    <<r.type, r.source_model, r.source_id, r.contentnode_id, r.status>>

\* Meta.unique_together = ("type", "source_model", "source_id", "contentnode_id")
UniqueKey(r) == <<r.type, r.source_model, r.source_id, r.contentnode_id>>

\* A plausible slip: the type column declared with null=True.
ConstraintsHoldNullable(rows, r) ==
    \A o \in rows : o.id # r.id => UniqueKey(o) # UniqueKey(r)

\* The constraints of the table on the write of row r: type is a column that
\* is not nullable, and no other row has r's unique_together columns.
ConstraintsHold(rows, r) ==
    /\ r.type # None
    /\ \A o \in rows : o.id # r.id => UniqueKey(o) # UniqueKey(r)

\* ContentRequest.save on an instance of class cls: the type is set from the
\* class's manager, then the row is written (an update when a row with the
\* primary key exists, an insert otherwise).  The write raises and changes
\* nothing when a constraint fails.
save(rows, cls, instance) ==
    LET r == [instance EXCEPT !.type = request_type(cls)]
    IN IF ConstraintsHold(rows, r)
       THEN [ok |-> TRUE, row |-> r,
             rows |-> {o \in rows : o.id # r.id} \cup {r}]
       ELSE [ok |-> FALSE, row |-> r, rows |-> rows]

\* ContentRequestManager.get_queryset of class cls: filter(type=request_type)
get_queryset(rows, cls) == {r \in rows : r.type = request_type(cls)}

\* Whether a stored row other than r has r's origin and content node and the
\* type t.
Requested(rows, r, t) ==
    \E o \in rows : /\ o.id # r.id
                    /\ o.type = t
                    /\ o.source_model = r.source_model
                    /\ o.source_id = r.source_id
                    /\ o.contentnode_id = r.contentnode_id

\* What is kept of a call of save: the class, the instance as written, whether
\* it was a new instance, whether the write went through, whether the same
\* request was stored before the call, and whether the call changed the table.
SaveRecord(rows, cls, create, res) ==
    [called |-> TRUE, create |-> create, cls |-> cls, ok |-> res.ok, row |-> res.row,
     requested |-> Requested(rows, res.row, request_type(cls)),
     changed |-> (res.rows # rows)]

NoSave == [called |-> FALSE, create |-> FALSE, cls |-> "ContentRequest", ok |-> FALSE,
           row |-> [id |-> 0, type |-> None, source_model |-> "", source_id |-> "",
                    contentnode_id |-> "", status |-> "PENDING"],
           requested |-> FALSE, changed |-> FALSE]

LedgerIdle ==
    /\ requests = {}
    /\ nextReq = 1
    /\ lastSave = NoSave


(***************************************************************************)
(* LabelIndex: ContentNodeQueryset.has_all_labels.                         *)
(***************************************************************************)
\* metadata_bitmasks[field_name]: the registry of the labels of one metadata
\* field, each with its bitmask field and its bit weight.
bitmasks ==
    [l \in {"A", "B", "C"} |->
        IF l = "A" THEN [bitmask_field_name |-> "F1", bits |-> 1]
        ELSE IF l = "B" THEN [bitmask_field_name |-> "F1", bits |-> 2]
        ELSE [bitmask_field_name |-> "F2", bits |-> 1]]

\* The labels a caller may name; "X" is in no registry.
LabelNames == {"A", "B", "C", "X"}

BitmaskFields == {"F1", "F2"}

RECURSIVE BitAnd(_, _)
\* F(field).bitand(bits), on values that are not negative.
BitAnd(a, b) ==
    IF a = 0 \/ b = 0 THEN 0
    ELSE (a % 2) * (b % 2) + 2 * BitAnd(a \div 2, b \div 2)

RECURSIVE BitOr(_, _)
BitOr(a, b) ==
    IF a = 0 THEN b
    ELSE IF b = 0 THEN a
    ELSE (IF a % 2 = 1 \/ b % 2 = 1 THEN 1 ELSE 0) + 2 * BitOr(a \div 2, b \div 2)

\* One turn of "for label in labels": bits[bitmask_fieldname] += bits of label,
\* the entry starting at 0; a label that is not in the registry is skipped.
AddLabel(bits, label) ==
    IF label \in DOMAIN bitmasks
    THEN LET fn == bitmasks[label].bitmask_field_name
         IN [f \in DOMAIN bits \cup {fn} |->
                (IF f \in DOMAIN bits THEN bits[f] ELSE 0)
                    + (IF f = fn THEN bitmasks[label].bits ELSE 0)]
    ELSE bits

RECURSIVE CollectBits(_, _)
CollectBits(bits, labels) ==
    IF labels = <<>> THEN bits
    ELSE CollectBits(AddLabel(bits, Head(labels)), Tail(labels))

\* has_all_labels applied to one node: the node stays in the queryset iff each
\* annotation <field>_masked = field & bits is greater than 0.
has_all_labels(node, labels) ==
    LET bits == CollectBits([f \in {} |-> 0], labels)
    IN \A f \in DOMAIN bits : BitAnd(node[f], bits[f]) > 0

LabelsIdle ==
    /\ lblLabels = <<>>
    /\ lblNode = [f \in BitmaskFields |-> 0]
    /\ lblDone = FALSE
    /\ lblResult = FALSE

(***************************************************************************)
(* ContentNodeQueryset.dedupe_by_content_id.                               *)
(***************************************************************************)
DedupeContentIds == {"ca", "cb"}

Vendors == {"sqlite", "postgresql"}

\* The content_ids of the rows ids of the table.
ContentIdsOf(table, ids) == {table[i] : i \in ids}

\* order_by("content_id").distinct("content_id") on the rows ids: one row of
\* each content_id.  Nothing orders the rows of one content_id, so which one
\* is kept is the database's choice: every choice is a possible result.
DistinctOnContentId(table, ids) ==
    {S \in SUBSET ids :
        \A c \in ContentIdsOf(table, ids) :
            Cardinality({i \in S : table[i] = c}) = 1}

\* values("content_id").annotate(node_id=Min("id")).values_list("node_id")
MinIdPerContentId(table, ids) ==
    {CHOOSE i \in ids :
         /\ table[i] = c
         /\ \A j \in ids : table[j] = c => i <= j
       : c \in ContentIdsOf(table, ids)}

\* FilterByUUIDQuerysetMixin.filter_by_uuids: the rows of self whose id is
\* among ids.
filter_by_uuids(self, ids) == self \cap ids

\* dedupe_by_content_id on the queryset self: the set of the results the call
\* can return.
dedupe_by_content_id(table, self, vendor, use_distinct) ==
    IF vendor = "sqlite" \/ ~use_distinct
    THEN IF vendor = "postgresql"
         THEN {filter_by_uuids(self, deduped_ids) :
                   deduped_ids \in DistinctOnContentId(table, DOMAIN table)}
         ELSE {filter_by_uuids(self, MinIdPerContentId(table, self))}
    ELSE DistinctOnContentId(table, self)

NoDedupe == [called |-> FALSE, vendor |-> "sqlite", use_distinct |-> TRUE]

DedupeIdle ==
    /\ ddTable = [i \in 1..MaxRows |-> "ca"]
    /\ ddQs = {}
    /\ ddCall = NoDedupe
    /\ ddResult = {}


TreeIdle ==
    /\ nodes = {}
    /\ nextId = 1
    /\ last = NoCall
    /\ roots = {}
    /\ pc = [c \in Callers |-> "idle"]
    /\ job = [c \in Callers |-> NoJob]
    /\ expect = [c \in Callers |-> {}]
    /\ alone = [c \in Callers |-> TRUE]

\* The identifiers of the new-root subtrees after a call that returned stack.
RootsAfter(hasTarget, stack) ==
    IF hasTarget THEN roots ELSE roots \cup {stack[1].id}

(***************************************************************************)
(* SpecTree: build_tree calls one after the other, each followed by the    *)
(* caller's save of the returned nodes.  The target is a row read from the *)
(* store at the call.                                                      *)
(***************************************************************************)
BuildTree ==
    \E data \in Shapes, target \in nodes \cup {NoNode}, position \in Positions :
        /\ target = NoNode => position = "last-child"
        /\ Cardinality(nodes) + Size(data) <= MaxNodes
        /\ LET r == build_tree_nodes(nodes, data, target, position, nextId)
           IN /\ nodes' = r.store \cup Range(r.stack)
              /\ nextId' = nextId + Len(r.stack)
              /\ roots' = RootsAfter(target # NoNode, r.stack)
              /\ last' = [called |-> TRUE, target |-> target, position |-> position,
                          returned |-> r.stack, before |-> nodes]
        /\ UNCHANGED <<pc, job, expect, alone>>
        /\ UNCHANGED fileVars
    /\ UNCHANGED ledgerVars
    /\ UNCHANGED <<labelVars, dedupeVars>>

InitTree == TreeIdle /\ FilesIdle /\ LedgerIdle /\ LabelsIdle /\ DedupeIdle

NextTree == BuildTree

SpecTree == InitTree /\ [][NextTree]_vars

(***************************************************************************)
(* SpecTreeConc: two callers of build_tree whose steps interleave.  A call *)
(* is three steps: the coordinate assignment (reading the target row and,  *)
(* with no target, the next tree id), the space-making write, and the      *)
(* caller's save of the returned rows.  No step takes a lock.  At the      *)
(* assignment expect records what the call would leave in its tree if it   *)
(* ran to its end at once, and alone whether a call in the same tree is in *)
(* progress at any time of the call.                                       *)
(***************************************************************************)
InFlight == {c \in Callers : pc[c] # "idle"}

RECURSIVE SumLen(_)
SumLen(cs) ==
    IF cs = {} THEN 0
    ELSE LET c == CHOOSE x \in cs : TRUE
         IN Len(job[c].stack) + SumLen(cs \ {c})

Assign(c) ==
    /\ pc[c] = "idle"
    /\ \E data \in ConcShapes, target \in nodes \cup {NoNode},
          position \in ValidPositions :
        /\ target = NoNode => position = "last-child"
        /\ Cardinality(nodes) + SumLen(InFlight) + Size(data) <= MaxConcNodes
        /\ LET a == AssignCoordinates(nodes, data, target, position, nextId)
               others == {d \in InFlight : job[d].tree_id = a.tree_id}
           IN /\ job' = [job EXCEPT ![c] = a]
              /\ nextId' = nextId + Len(a.stack)
              /\ expect' = [expect EXCEPT ![c] =
                                TreeRows(AfterInsert(nodes, data, target, position, nextId),
                                         a.tree_id)]
              /\ alone' = [d \in Callers |->
                               IF d = c THEN others = {}
                               ELSE alone[d] /\ d \notin others]
    /\ pc' = [pc EXCEPT ![c] = "assigned"]
    /\ UNCHANGED <<nodes, last, roots>>
    /\ UNCHANGED fileVars
    /\ UNCHANGED ledgerVars
    /\ UNCHANGED <<labelVars, dedupeVars>>

Space(c) ==
    /\ pc[c] = "assigned"
    /\ nodes' = MakeSpace(nodes, job[c])
    /\ pc' = [pc EXCEPT ![c] = "returned"]
    /\ UNCHANGED <<nextId, last, roots, job, expect, alone>>
    /\ UNCHANGED fileVars
    /\ UNCHANGED ledgerVars
    /\ UNCHANGED <<labelVars, dedupeVars>>

Persist(c) ==
    /\ pc[c] = "returned"
    /\ nodes' = nodes \cup Range(job[c].stack)
    /\ roots' = RootsAfter(job[c].hasTarget, job[c].stack)
    /\ pc' = [pc EXCEPT ![c] = "idle"]
    /\ job' = [job EXCEPT ![c] = NoJob]
    /\ expect' = [expect EXCEPT ![c] = {}]
    /\ alone' = [alone EXCEPT ![c] = TRUE]
    /\ UNCHANGED <<nextId, last>>
    /\ UNCHANGED fileVars
    /\ UNCHANGED ledgerVars
    /\ UNCHANGED <<labelVars, dedupeVars>>

InitTreeConc == TreeIdle /\ FilesIdle /\ LedgerIdle /\ LabelsIdle /\ DedupeIdle

NextTreeConc == \E c \in Callers : Assign(c) \/ Space(c) \/ Persist(c)

SpecTreeConc == InitTreeConc /\ [][NextTreeConc]_vars

(***************************************************************************)
(* SpecFiles: the generator of delete_unused_files, consumed one item at a *)
(* time, while the rest of the system changes the catalog.                 *)
(***************************************************************************)
\* Whether some File row of f points to an available ContentNode.
HasAvailableNode(rows, navail, f) ==
    \E r \in FilesOf(rows, f) : navail[r.contentnode] = TRUE

\* The files that count as having become unused during the running scan,
\* after a catalog change that leaves the flags avail, the rows and navail.
LateAfter(avail, rows, navail) ==
    IF gcPc = "scanning"
    THEN {f \in LocalFiles \ snapshot :
             /\ f \in get_unused_files(LocalFiles, avail, rows, navail)
             /\ (f \in late \/ f \notin UnusedNow)}
    ELSE {f \in late : ~HasAvailableNode(rows, navail, f)}

\* The first next() of the generator: "for file in self.get_unused_files()"
\* evaluates the queryset once, for the whole loop.
GcSnapshot ==
    /\ gcPc \in {"idle", "done"}
    /\ passes < MaxPasses
    /\ snapshot' = UnusedNow
    /\ todo' = UnusedNow
    /\ yielded' = <<>>
    /\ late' = {}
    /\ gcPc' = "scanning"
    /\ passes' = passes + 1
    /\ UNCHANGED <<lfAvail, onDisk, fileRows, nodeAvail, changes>>
    /\ UNCHANGED lastDelete
    /\ UNCHANGED treeVars
    /\ UNCHANGED ledgerVars
    /\ UNCHANGED <<labelVars, dedupeVars>>

\* A plausible slip: the except clause is missing, so a failed removal ends
\* the generator and the files after it are never reached.
GcRemoveAbortOnFailure ==
    /\ gcPc = "scanning"
    /\ \E f \in todo :
        \/ /\ onDisk[f]
           /\ onDisk' = [onDisk EXCEPT ![f] = FALSE]
           /\ todo' = todo \ {f}
           /\ yielded' = Append(yielded, <<TRUE, f>>)
        \/ /\ UNCHANGED onDisk
           /\ todo' = {}
           /\ yielded' = Append(yielded, <<FALSE, f>>)
    /\ UNCHANGED <<lfAvail, fileRows, nodeAvail, gcPc, snapshot, late, passes, changes>>
    /\ UNCHANGED lastDelete
    /\ UNCHANGED treeVars
    /\ UNCHANGED ledgerVars
    /\ UNCHANGED <<labelVars, dedupeVars>>

\* A plausible slip: the flag written in each turn of the loop, file by file,
\* instead of once after the loop.
GcRemoveMarksEach ==
    /\ gcPc = "scanning"
    /\ \E f \in todo :
        /\ todo' = todo \ {f}
        /\ lfAvail' = [lfAvail EXCEPT ![f] = FALSE]
        /\ \/ /\ onDisk[f]
              /\ onDisk' = [onDisk EXCEPT ![f] = FALSE]
              /\ yielded' = Append(yielded, <<TRUE, f>>)
           \/ /\ UNCHANGED onDisk
              /\ yielded' = Append(yielded, <<FALSE, f>>)
    /\ UNCHANGED <<fileRows, nodeAvail, gcPc, snapshot, late, passes, changes>>
    /\ UNCHANGED lastDelete
    /\ UNCHANGED treeVars
    /\ UNCHANGED ledgerVars
    /\ UNCHANGED <<labelVars, dedupeVars>>

\* One turn of the loop: os.remove of the file's path, then the yield.  The
\* removal fails when the bytes are missing, and may fail when they are there
\* (IOError, OSError, InvalidStorageFilenameError).
GcRemove ==
    /\ gcPc = "scanning"
    /\ \E f \in todo :
        /\ todo' = todo \ {f}
        /\ \/ /\ onDisk[f]
              /\ onDisk' = [onDisk EXCEPT ![f] = FALSE]
              /\ yielded' = Append(yielded, <<TRUE, f>>)
           \/ /\ UNCHANGED onDisk
              /\ yielded' = Append(yielded, <<FALSE, f>>)
    /\ UNCHANGED <<lfAvail, fileRows, nodeAvail, gcPc, snapshot, late, passes, changes>>
    /\ UNCHANGED lastDelete
    /\ UNCHANGED treeVars
    /\ UNCHANGED ledgerVars
    /\ UNCHANGED <<labelVars, dedupeVars>>

\* The next() after the last yield: self.get_unused_files().update(available=False),
\* a new evaluation of the query, and the generator ends.
GcFinish ==
    /\ gcPc = "scanning"
    /\ todo = {}
    /\ lfAvail' = [f \in LocalFiles |-> IF f \in UnusedNow THEN FALSE ELSE lfAvail[f]]
    /\ gcPc' = "done"
    /\ UNCHANGED <<onDisk, fileRows, nodeAvail, snapshot, todo, yielded, late,
                   passes, changes>>
    /\ UNCHANGED lastDelete
    /\ UNCHANGED treeVars
    /\ UNCHANGED ledgerVars
    /\ UNCHANGED <<labelVars, dedupeVars>>

\* The consumer drops the generator while it is suspended at a yield: the
\* statement after the loop never runs.
GcAbandon ==
    /\ gcPc = "scanning"
    /\ yielded # <<>>
    /\ gcPc' = "idle"
    /\ UNCHANGED <<lfAvail, onDisk, fileRows, nodeAvail, snapshot, todo, yielded,
                   late, passes, changes>>
    /\ UNCHANGED lastDelete
    /\ UNCHANGED treeVars
    /\ UNCHANGED ledgerVars
    /\ UNCHANGED <<labelVars, dedupeVars>>

\* The rest of the system marks a ContentNode available or unavailable.
SetNodeAvailable ==
    /\ changes < MaxChanges
    /\ \E n \in CatalogNodes, b \in BOOLEAN :
        /\ nodeAvail[n] # b
        /\ nodeAvail' = [nodeAvail EXCEPT ![n] = b]
        /\ late' = LateAfter(lfAvail, fileRows, nodeAvail')
    /\ changes' = changes + 1
    /\ UNCHANGED <<lfAvail, onDisk, fileRows, gcPc, snapshot, todo, yielded, passes>>
    /\ UNCHANGED lastDelete
    /\ UNCHANGED treeVars
    /\ UNCHANGED ledgerVars
    /\ UNCHANGED <<labelVars, dedupeVars>>

\* The rest of the system adds or deletes a File row.
ChangeFileRow ==
    /\ changes < MaxChanges
    /\ \E r \in FileRowSpace :
        /\ fileRows' = IF r \in fileRows THEN fileRows \ {r} ELSE fileRows \cup {r}
        /\ late' = LateAfter(lfAvail, fileRows', nodeAvail)
    /\ changes' = changes + 1
    /\ UNCHANGED <<lfAvail, onDisk, nodeAvail, gcPc, snapshot, todo, yielded, passes>>
    /\ UNCHANGED lastDelete
    /\ UNCHANGED treeVars
    /\ UNCHANGED ledgerVars
    /\ UNCHANGED <<labelVars, dedupeVars>>

\* A plausible slip: available = False and save() inside the try block, after
\* os.remove, so that a failed removal leaves the flag as it was.
DeleteStoredFileFlagInTry ==
    /\ changes < MaxChanges
    /\ \E f \in LocalFiles :
        \/ /\ onDisk[f]
           /\ onDisk' = [onDisk EXCEPT ![f] = FALSE]
           /\ lfAvail' = [lfAvail EXCEPT ![f] = FALSE]
           /\ lastDelete' = [called |-> TRUE, file |-> f, deleted |-> TRUE]
           /\ late' = late \ {f}
        \/ /\ UNCHANGED <<onDisk, lfAvail, late>>
           /\ lastDelete' = [called |-> TRUE, file |-> f, deleted |-> FALSE]
    /\ changes' = changes + 1
    /\ UNCHANGED <<fileRows, nodeAvail, gcPc, snapshot, todo, yielded, passes>>
    /\ UNCHANGED treeVars
    /\ UNCHANGED ledgerVars
    /\ UNCHANGED <<labelVars, dedupeVars>>

\* LocalFile.delete_stored_file: os.remove of the file's path (deleted = True,
\* or deleted = False when it raises IOError, OSError or
\* InvalidStorageFilenameError), then available = False and save(), whatever
\* the removal did; deleted is returned.
DeleteStoredFile ==
    /\ changes < MaxChanges
    /\ \E f \in LocalFiles :
        /\ \/ /\ onDisk[f]
              /\ onDisk' = [onDisk EXCEPT ![f] = FALSE]
              /\ lastDelete' = [called |-> TRUE, file |-> f, deleted |-> TRUE]
           \/ /\ UNCHANGED onDisk
              /\ lastDelete' = [called |-> TRUE, file |-> f, deleted |-> FALSE]
        /\ lfAvail' = [lfAvail EXCEPT ![f] = FALSE]
        /\ late' = late \ {f}
    /\ changes' = changes + 1
    /\ UNCHANGED <<fileRows, nodeAvail, gcPc, snapshot, todo, yielded, passes>>
    /\ UNCHANGED treeVars
    /\ UNCHANGED ledgerVars
    /\ UNCHANGED <<labelVars, dedupeVars>>

InitFiles ==
    /\ TreeIdle
    /\ LedgerIdle
    /\ LabelsIdle
    /\ DedupeIdle
    /\ lfAvail \in [LocalFiles -> BOOLEAN]
    /\ onDisk \in [LocalFiles -> BOOLEAN]
    /\ fileRows \in SUBSET FileRowSpace
    /\ nodeAvail \in [CatalogNodes -> BOOLEAN]
    /\ gcPc = "idle"
    /\ snapshot = {}
    /\ todo = {}
    /\ yielded = <<>>
    /\ late = {}
    /\ passes = 0
    /\ changes = 0
    /\ lastDelete = NoDelete

NextFiles ==
    \/ GcSnapshot
    \/ GcRemove
    \/ GcFinish
    \/ GcAbandon
    \/ SetNodeAvailable
    \/ ChangeFileRow
    \/ DeleteStoredFile

SpecFiles == InitFiles /\ [][NextFiles]_vars

(***************************************************************************)
(* SpecLedger: requests are created and saved through the three classes.   *)
(***************************************************************************)
\* A new instance of class cls is built and saved.
CreateRequest ==
    /\ nextReq <= MaxRequests
    /\ \E cls \in RequestClasses, src \in Sources, cn \in RequestedNodes,
          st \in ContentRequestStatus :
        LET inst == [id |-> nextReq, type |-> request_type(cls),
                     source_model |-> src[1], source_id |-> src[2],
                     contentnode_id |-> cn, status |-> st]
            res == save(requests, cls, inst)
        IN /\ requests' = res.rows
           /\ nextReq' = IF res.ok THEN nextReq + 1 ELSE nextReq
           /\ lastSave' = SaveRecord(requests, cls, TRUE, res)
    /\ UNCHANGED treeVars
    /\ UNCHANGED fileVars
    /\ UNCHANGED <<labelVars, dedupeVars>>

\* A stored row is loaded as an instance of class cls, given a status and
\* saved.
SaveRequest ==
    /\ \E cls \in RequestClasses, r \in requests, st \in ContentRequestStatus :
        LET res == save(requests, cls, [r EXCEPT !.status = st])
        IN /\ requests' = res.rows
           /\ lastSave' = SaveRecord(requests, cls, FALSE, res)
    /\ UNCHANGED nextReq
    /\ UNCHANGED treeVars
    /\ UNCHANGED fileVars
    /\ UNCHANGED <<labelVars, dedupeVars>>

InitLedger == TreeIdle /\ FilesIdle /\ LedgerIdle /\ LabelsIdle /\ DedupeIdle

NextLedger == CreateRequest \/ SaveRequest

SpecLedger == InitLedger /\ [][NextLedger]_vars

(***************************************************************************)
(* SpecLabels: has_all_labels on every list of labels and every node.      *)
(***************************************************************************)
RECURSIVE SeqsUpTo(_, _)
SeqsUpTo(S, n) ==
    IF n = 0 THEN {<<>>}
    ELSE LET shorter == SeqsUpTo(S, n - 1)
         IN shorter \cup {Append(q, x) : q \in shorter, x \in S}

QueryLabels ==
    /\ ~lblDone
    /\ lblDone' = TRUE
    /\ lblResult' = has_all_labels(lblNode, lblLabels)
    /\ UNCHANGED <<lblLabels, lblNode>>
    /\ UNCHANGED <<treeVars, fileVars, ledgerVars, dedupeVars>>

InitLabels ==
    /\ TreeIdle /\ FilesIdle /\ LedgerIdle /\ DedupeIdle
    /\ lblLabels \in SeqsUpTo(LabelNames, MaxLabels)
    /\ lblNode \in [BitmaskFields -> 0..3]
    /\ lblDone = FALSE
    /\ lblResult = FALSE

NextLabels == QueryLabels

SpecLabels == InitLabels /\ [][NextLabels]_vars

(***************************************************************************)
(* SpecDedupe: dedupe_by_content_id on every queryset of every table.      *)
(***************************************************************************)
Dedupe ==
    /\ ~ddCall.called
    /\ \E vendor \in Vendors, use_distinct \in BOOLEAN :
        /\ ddCall' = [called |-> TRUE, vendor |-> vendor, use_distinct |-> use_distinct]
        /\ ddResult' \in dedupe_by_content_id(ddTable, ddQs, vendor, use_distinct)
    /\ UNCHANGED <<ddTable, ddQs>>
    /\ UNCHANGED <<treeVars, fileVars, ledgerVars, labelVars>>

InitDedupe ==
    /\ TreeIdle /\ FilesIdle /\ LedgerIdle /\ LabelsIdle
    /\ ddTable \in [1..MaxRows -> DedupeContentIds]
    /\ ddQs \in SUBSET (1..MaxRows)
    /\ ddCall = NoDedupe
    /\ ddResult = {}

NextDedupe == Dedupe

SpecDedupe == InitDedupe /\ [][NextDedupe]_vars

Spec == SpecTree

(***************************************************************************)
(* Claims about the TreeStore.                                             *)
(***************************************************************************)
\* The stored rows that are roots of subtrees built with no target.
NewRoots == {n \in nodes : n.id \in roots}

\* C2: for any sequence or interleaving of build_tree calls with no target,
\* no two resulting root subtrees share a tree_id.
C2_FreshTreeIds ==
    \A a, b \in NewRoots : a # b => a.tree_id # b.tree_id

\* The rows the claim expects of get_descendant_content_ids: the non-topic
\* rows of the node's own tree with lft in [lft, rght].
OwnTreeDescendantRows(store, self) ==
    {n \in store : /\ n.tree_id = self.tree_id
                   /\ n.lft >= self.lft /\ n.lft <= self.rght
                   /\ n.kind # TOPIC}

\* C6: with two or more trees stored, get_descendant_content_ids(node)
\* returns exactly the content_ids of the non-topic nodes of node's own tree
\* whose lft lies in [node.lft, node.rght].
C6_DescendantsOfOwnTree ==
    Cardinality({n.tree_id : n \in nodes}) >= 2 =>
        \A n \in nodes :
            get_descendant_content_ids(nodes, n)
                = CountOf(OwnTreeDescendantRows(nodes, n))

\* C10: a build_tree call with a target and a position that is none of the
\* four is rejected before any write: it returns no nodes and no stored row's
\* lft or rght has changed.
C10_InvalidPositionRejected ==
    (last.called /\ last.target # NoNode /\ last.position \notin ValidPositions)
        => /\ last.returned = <<>>
           /\ \A n \in last.before :
                  \E m \in nodes : m.id = n.id /\ m.lft = n.lft /\ m.rght = n.rght

\* The stored row with identifier id.
RowOf(store, id) == CHOOSE n \in store : n.id = id

\* A root (1,8) of tree 1 with the leaf children (2,3), (4,5) and (6,7).
ShiftExampleBefore ==
    {[id |-> 1, parent |-> 0, tree_id |-> 1, level |-> 0, lft |-> 1, rght |-> 8,
      kind |-> TOPIC, content_id |-> "ca"]}
    \cup {[id |-> i, parent |-> 1, tree_id |-> 1, level |-> 1,
           lft |-> 2 * i - 2, rght |-> 2 * i - 1,
           kind |-> VIDEO, content_id |-> "cb"] : i \in 2..4}

\* Two leaves inserted as first-child of that root, one call each.
ShiftExampleAfter ==
    LET one == AfterInsert(ShiftExampleBefore, Leaf, RowOf(ShiftExampleBefore, 1),
                           "first-child", 5)
    IN AfterInsert(one, Leaf, RowOf(one, 1), "first-child", 6)

Bounds(store, id) == <<RowOf(store, id).lft, RowOf(store, id).rght>>

\* C11: an insertion of k nodes as first-child of a root places the first new
\* node at the cursor (the root's lft + 1), moves every stored lft and rght
\* of the root's tree that is at or beyond the cursor right by exactly 2k and
\* leaves every other bound alone; on the root (1,8) with the child (2,3),
\* two leaves inserted as first-child end at (2,3) and (4,5), the child at
\* (6,7) and the root at (1,12).
C11_FirstChildShift ==
    /\ (/\ last.called /\ last.target # NoNode
        /\ last.position = "first-child" /\ last.target.parent = 0)
       => LET k == Len(last.returned)
              cursor == last.target.lft + 1
              moved(b, n) == IF n.tree_id = last.target.tree_id /\ b >= cursor
                             THEN b + 2 * k ELSE b
          IN /\ last.returned[1].lft = cursor
             /\ \A n \in last.before :
                    \E m \in nodes : /\ m.id = n.id
                                     /\ m.lft = moved(n.lft, n)
                                     /\ m.rght = moved(n.rght, n)
    /\ Bounds(ShiftExampleAfter, 1) = <<1, 12>>
    /\ Bounds(ShiftExampleAfter, 2) = <<6, 7>>
    /\ {Bounds(ShiftExampleAfter, 5), Bounds(ShiftExampleAfter, 6)}
           = {<<2, 3>>, <<4, 5>>}

\* C11 witness: two nodes inserted as first-child of a root have moved its
\* child (2,3) to (6,7) and the root's right bound by four, while a second
\* tree is stored.
C11_Witness ==
    /\ last.called /\ last.target # NoNode
    /\ last.position = "first-child" /\ last.target.parent = 0
    /\ Len(last.returned) = 2
    /\ \E n \in last.before :
          /\ n.tree_id = last.target.tree_id
          /\ <<n.lft, n.rght>> = <<2, 3>>
          /\ Bounds(nodes, n.id) = <<6, 7>>
    /\ Bounds(nodes, last.target.id)[2] = last.target.rght + 4
    /\ \E n \in last.before : n.tree_id # last.target.tree_id

\* The row of the returned list that the data made the parent of row n.
ReturnedParent(n) == CHOOSE p \in Range(last.returned) : p.id = n.parent

\* C18: for a target and one of the four positions, the first returned node
\* has lft = target.lft + 1 (first-child), target.rght (last-child),
\* target.lft (left) or target.rght + 1 (right), with the target's bounds as
\* they were at the call, and level = target.level + 1 for the two child
\* positions and target.level for the two sibling positions; every other
\* returned node is one level below its parent, all have the target's
\* tree_id, and lft increases strictly along the returned list.
C18_PositionFixesPlaceAndDepth ==
    (last.called /\ last.target # NoNode /\ last.position \in ValidPositions)
        => LET t == last.target
               ret == last.returned
               first == ret[1]
           IN /\ last.position = "first-child"
                    => (first.lft = t.lft + 1 /\ first.level = t.level + 1)
              /\ last.position = "last-child"
                    => (first.lft = t.rght /\ first.level = t.level + 1)
              /\ last.position = "left"
                    => (first.lft = t.lft /\ first.level = t.level)
              /\ last.position = "right"
                    => (first.lft = t.rght + 1 /\ first.level = t.level)
              /\ \A i \in 2..Len(ret) : ret[i].level = ReturnedParent(ret[i]).level + 1
              /\ \A i \in 1..Len(ret) : ret[i].tree_id = t.tree_id
              /\ \A i \in 1..(Len(ret) - 1) : ret[i].lft < ret[i + 1].lft
              /\ Range(ret) \subseteq nodes

\* C18 witness: a subtree three levels deep has been inserted to the right
\* of a target that is not a root.
C18_Witness ==
    /\ last.called /\ last.target # NoNode
    /\ last.position = "right"
    /\ last.target.level = 1
    /\ Len(last.returned) = 3
    /\ last.returned[3].level = 3

\* A call with a target that no call in the same tree has overlapped.
Independent(c, p, j, al) == p[c] # "idle" /\ j[c].hasTarget /\ al[c]

\* C19: a build_tree call with a target, interleaved in any way with the
\* steps of calls in other trees, leaves in its tree, once its space is
\* made and its rows are saved, exactly the rows it leaves when it runs
\* alone from the store it read; and its space-making and its save leave
\* every row of every other tree as it was (lft, rght and level included).
C19_DisjointTreesIndependent ==
    [][\A c \in Callers :
          /\ (Independent(c, pc', job', alone') /\ pc'[c] = "returned")
                => TreeRows(nodes' \cup Range(job'[c].stack), job'[c].tree_id)
                       = expect'[c]
          /\ (Independent(c, pc, job, alone) /\ pc[c] = "returned" /\ pc'[c] = "idle")
                => TreeRows(nodes', job[c].tree_id) = expect[c]
          /\ (pc[c] \in {"assigned", "returned"} /\ pc'[c] # pc[c] /\ job[c].hasTarget)
                => \A t \in {n.tree_id : n \in nodes \cup nodes'} \ {job[c].tree_id} :
                       TreeRows(nodes', t) = TreeRows(nodes, t)]_vars

\* C19 witness: two calls with targets in two different stored trees are in
\* progress together; both have read their target and made their space, in
\* trees that hold moved rows, and both are about to save their rows.
C19_Witness ==
    /\ pc = [c \in Callers |-> "returned"]
    /\ \A c \in Callers : job[c].hasTarget /\ alone[c]
    /\ job[1].tree_id # job[2].tree_id
    /\ job[1].stack[1].id < job[2].stack[1].id
    /\ \A c \in Callers : \E n \in nodes : n.tree_id = job[c].tree_id /\ n.rght > 2

(***************************************************************************)
(* Claims about the FileStore.                                             *)
(***************************************************************************)
\* C3: when delete_unused_files has been consumed to the end, every file of
\* its snapshot has available = false, also when the catalog changed between
\* the snapshot and the final update.
C3_SnapshotMarkedUnavailable ==
    [][(gcPc = "scanning" /\ gcPc' = "done")
          => \A f \in snapshot : lfAvail'[f] = FALSE]_vars

\* C4: a file that became unused after the snapshot of a pass, and is still
\* referenced by no available node, is in the scan of the next pass.
C4_LateFilePickedUp ==
    [][(gcPc # "scanning" /\ gcPc' = "scanning") => late \subseteq snapshot']_vars

\* The files of the pairs in a sequence of yielded pairs.
FilesIn(pairs) == {pairs[i][2] : i \in DOMAIN pairs}

\* C12: each pair delete_unused_files yields is for a file of its snapshot
\* that it has not yielded before, and carries true iff this removal took
\* the file's bytes off the disk; when the generator has ended it has
\* yielded exactly one pair for each file of the snapshot, the files after a
\* failed removal included.
C12_OnePairPerSnapshotFile ==
    [][/\ (gcPc = "scanning" /\ Len(yielded') = Len(yielded) + 1)
          => LET pair == yielded'[Len(yielded')]
             IN /\ pair[2] \in snapshot \ FilesIn(yielded)
                /\ pair[1] = (onDisk[pair[2]] /\ ~onDisk'[pair[2]])
                /\ \A g \in LocalFiles \ {pair[2]} : onDisk'[g] = onDisk[g]
       /\ (gcPc = "scanning" /\ gcPc' = "done")
          => /\ Len(yielded') = Cardinality(snapshot')
             /\ FilesIn(yielded') = snapshot']_vars

\* C12 witness: the generator has ended after a failed removal of the first
\* file of a two-file snapshot and a successful removal of the second.
C12_Witness ==
    /\ gcPc = "done"
    /\ Cardinality(snapshot) = 2
    /\ Len(yielded) = 2
    /\ yielded[1][1] = FALSE
    /\ yielded[2][1] = TRUE
    /\ ~onDisk[yielded[2][2]]

\* A step of delete_stored_file: the only catalog change that leaves the
\* File rows and the nodes' flags as they are.
DeleteStoredFileStep ==
    /\ changes' = changes + 1
    /\ UNCHANGED <<fileRows, nodeAvail>>

\* C16: delete_stored_file leaves the stored available flag of its file
\* false, whether the removal from disk succeeded or failed, and returns
\* true iff the call took the bytes of the file off the disk.
C16_DeleteStoredFile ==
    [][DeleteStoredFileStep
          => LET f == lastDelete'.file
             IN /\ lastDelete'.called
                /\ lfAvail'[f] = FALSE
                /\ lastDelete'.deleted = (onDisk[f] /\ ~onDisk'[f])]_vars

\* C16 witness: delete_stored_file has failed on a file whose bytes are still
\* on the disk, and the file that was available is stored as unavailable
\* while the generator is scanning.
C16_Witness ==
    /\ lastDelete.called
    /\ ~lastDelete.deleted
    /\ onDisk[lastDelete.file]
    /\ ~lfAvail[lastDelete.file]
    /\ lastDelete.file \in snapshot
    /\ gcPc = "scanning"

\* A step of the generator that is not its end: the first next(), a turn of
\* the loop, or the consumer dropping it.
GeneratorStepBeforeEnd ==
    \/ gcPc # "scanning" /\ gcPc' = "scanning"
    \/ gcPc = "scanning" /\ Len(yielded') = Len(yielded) + 1
    \/ gcPc = "scanning" /\ gcPc' = "idle"

\* C20: no step of delete_unused_files before its end changes an available
\* flag, also when bytes were removed or the generator is dropped; a flag
\* changes, but for delete_stored_file, only in the step that ends the
\* generator, which comes after a pair was yielded for every snapshot file.
C20_NoFlagChangeBeforeExhaustion ==
    [][/\ GeneratorStepBeforeEnd => lfAvail' = lfAvail
       /\ (lfAvail' # lfAvail /\ ~DeleteStoredFileStep)
             => /\ gcPc = "scanning" /\ gcPc' = "done"
                /\ FilesIn(yielded) = snapshot]_vars

\* C20 witness: the generator was dropped after it removed the bytes of one
\* file of a two-file snapshot, and both files are still stored as available.
C20_Witness ==
    /\ gcPc = "idle"
    /\ Cardinality(snapshot) = 2
    /\ Len(yielded) = 1
    /\ yielded[1][1] = TRUE
    /\ ~onDisk[yielded[1][2]]
    /\ \A f \in snapshot : lfAvail[f]

\* The unused files as the specification defines them: available, and no
\* File row of theirs points to an available ContentNode.
UnusedBySpec ==
    {f \in LocalFiles :
        /\ lfAvail[f] = TRUE
        /\ \A r \in fileRows : r.local_file = f => nodeAvail[r.contentnode] = FALSE}

\* C9: get_unused_files returns exactly the available LocalFiles that no
\* File row links to an available ContentNode.
C9_UnusedExactly == UnusedNow = UnusedBySpec

\* C9 witness: after a catalog change, an available file referenced by an
\* available and by an unavailable node is not returned, and an available
\* orphan is.
C9_Witness ==
    /\ changes > 0
    /\ \E f \in LocalFiles :
          /\ lfAvail[f]
          /\ \E r \in FilesOf(fileRows, f) : nodeAvail[r.contentnode]
          /\ \E r \in FilesOf(fileRows, f) : ~nodeAvail[r.contentnode]
          /\ f \notin UnusedNow
    /\ \E g \in LocalFiles :
          /\ lfAvail[g]
          /\ FilesOf(fileRows, g) = {}
          /\ g \in UnusedNow

(***************************************************************************)
(* Claims about the RequestLedger.                                         *)
(***************************************************************************)
\* C5: no two stored ContentRequest rows share (type, source_model,
\* source_id, contentnode_id); creating a Download request whose
\* (source_model, source_id, contentnode_id) a stored Download row already
\* has fails and leaves exactly one stored row with them.
C5_RequestIdempotency ==
    /\ \A a, b \in requests :
          a.id # b.id =>
              <<a.type, a.source_model, a.source_id, a.contentnode_id>>
                  # <<b.type, b.source_model, b.source_id, b.contentnode_id>>
    /\ (/\ lastSave.called /\ lastSave.create
        /\ lastSave.cls = "ContentDownloadRequest"
        /\ lastSave.requested)
       => /\ ~lastSave.ok
          /\ ~lastSave.changed
          /\ Cardinality({o \in requests :
                 /\ o.type = Download
                 /\ o.source_model = lastSave.row.source_model
                 /\ o.source_id = lastSave.row.source_id
                 /\ o.contentnode_id = lastSave.row.contentnode_id}) = 1

\* C5 witness: a second Download request for the columns of a stored Download
\* row, with another status than that row's, has just been refused.
C5_Witness ==
    /\ lastSave.called /\ lastSave.create /\ ~lastSave.ok
    /\ lastSave.cls = "ContentDownloadRequest"
    /\ \E o \in requests :
          /\ o.type = Download
          /\ o.source_model = lastSave.row.source_model
          /\ o.source_id = lastSave.row.source_id
          /\ o.contentnode_id = lastSave.row.contentnode_id
          /\ o.status # lastSave.row.status

\* C13: the type of a stored ContentRequest never changes after creation:
\* no save, through any class and with any status, leaves a stored row with
\* another type than it had before the save.
C13_TypeNeverChanges ==
    [][\A r \in requests : \A m \in requests' : m.id = r.id => m.type = r.type]_vars

\* The two classes whose manager fixes a request type.
TypedClasses == {"ContentDownloadRequest", "ContentRemovalRequest"}

\* C14: a row that has just been created through the Download class has type
\* Download, is in the Download class's queryset and not in the Removal
\* class's, and the same with the two exchanged; a row that is in the
\* queryset of one of the two classes is still in it after every save; no
\* row is in both querysets.
C14_TypedViewIsolation ==
    [][/\ (lastSave'.create /\ lastSave'.ok /\ lastSave'.cls \in TypedClasses)
          => LET m == lastSave'.row
             IN /\ m.type = request_type(lastSave'.cls)
                /\ \A cls \in TypedClasses :
                       (m \in get_queryset(requests', cls)) = (cls = lastSave'.cls)
       /\ \A r \in requests : \A m \in requests' : \A cls \in TypedClasses :
              (m.id = r.id /\ r \in get_queryset(requests, cls))
                  => m \in get_queryset(requests', cls)
       /\ get_queryset(requests', "ContentDownloadRequest")
              \cap get_queryset(requests', "ContentRemovalRequest") = {}]_vars

\* The status changes of the request state machine.
StatusSteps ==
    {<<"PENDING", "IN_PROGRESS">>, <<"IN_PROGRESS", "COMPLETED">>,
     <<"IN_PROGRESS", "FAILED">>, <<"FAILED", "PENDING">>}

\* C15: a request is stored with status Pending, and every later change of
\* the stored status is Pending to InProgress, InProgress to Completed,
\* InProgress to Failed or Failed to Pending.
C15_StatusMachine ==
    [][\A m \in requests' :
          IF \E r \in requests : r.id = m.id
          THEN \A r \in requests :
                  (r.id = m.id /\ r.status # m.status)
                      => <<r.status, m.status>> \in StatusSteps
          ELSE m.status = "PENDING"]_vars

\* C17: a save through the base class, whose manager fixes no request type,
\* fails and leaves the table as it was; no stored row has a type that is
\* absent or is neither Download nor Removal.
C17_UntypedSaveRefused ==
    /\ \A r \in requests : r.type \in ContentRequestType
    /\ (lastSave.called /\ request_type(lastSave.cls) = None)
          => (~lastSave.ok /\ ~lastSave.changed)

\* C17 witness: a stored Download row has just been saved through the base
\* class, the save was refused, and the row still has its type.
C17_Witness ==
    /\ lastSave.called /\ ~lastSave.create
    /\ lastSave.cls = "ContentRequest"
    /\ lastSave.row.type = None
    /\ ~lastSave.ok
    /\ \E r \in requests : r.id = lastSave.row.id /\ r.type = Download
    /\ \E r \in requests : r.type = Removal

(***************************************************************************)
(* Claims about the LabelIndex and about dedupe_by_content_id.             *)
(***************************************************************************)
\* The labels of the list that the registry assigns to field f.
RequestedIn(labels, f) ==
    {l \in Range(labels) : l \in DOMAIN bitmasks /\ bitmasks[l].bitmask_field_name = f}

RECURSIVE OrOfWeights(_)
\* The bitwise OR of the bit weights of a set of labels.
OrOfWeights(ls) ==
    IF ls = {} THEN 0
    ELSE LET l == CHOOSE x \in ls : TRUE
         IN BitOr(bitmasks[l].bits, OrOfWeights(ls \ {l}))

\* C7: for every list of labels, has_all_labels matches a node iff, for every
\* bitmask field with at least one requested label, the node's value AND the
\* OR of the requested labels' weights in that field is not zero.
C7_PerFieldOrAcrossFieldAnd ==
    lblDone =>
        (lblResult <=>
            \A f \in BitmaskFields :
                RequestedIn(lblLabels, f) # {} =>
                    BitAnd(lblNode[f], OrOfWeights(RequestedIn(lblLabels, f))) # 0)

\* C8: for every queryset and every content_id in it, dedupe_by_content_id
\* returns exactly one row with that content_id, the one with the smallest
\* id among the queryset's rows with it, under every strategy.
C8_DedupeKeepsMinimum ==
    ddCall.called =>
        /\ ddResult \subseteq ddQs
        /\ \A c \in ContentIdsOf(ddTable, ddQs) :
              \E i \in ddQs :
                  /\ ddTable[i] = c
                  /\ \A j \in ddQs : ddTable[j] = c => i <= j
                  /\ {k \in ddResult : ddTable[k] = c} = {i}

=============================================================================
